---------------------------- MODULE Spec2Model ----------------------------
(***************************************************************************)
(* Model of neocore_client.py: the NeocoreClient command encoder, the      *)
(* notification demultiplexer, the two frame decoders, the session fields  *)
(* they update, and the command choreography of main().                    *)
(*                                                                         *)
(* Bytes are integers 0..255 and byte strings are sequences of them.  A    *)
(* Python str is the sequence of its code points.  An Optional value is a  *)
(* sequence of length 0 (None) or 1 (the value).                           *)
(***************************************************************************)
EXTENDS Integers, Sequences, FiniteSets, TLC

(***************************************************************************)
(* Class constants (lines 20-38).                                          *)
(***************************************************************************)
CORE_FEATURE == 0
SENSOR_CFG_FEATURE == 1
SENSOR_STREAM_FEATURE == 2
BATTERY_FEATURE == 3

PDU_COMMAND == 0
PDU_NOTIFICATION == 1
PDU_RESPONSE == 2
PDU_ERROR == 3

CMD_GET_SERIAL == 1
CMD_GET_BATTERY == 0
CMD_STREAM_CTRL == 0
CMD_TEST_SIGNAL_CTRL == 1

EEG_PACKET_TYPE == 4

None == << >>
Some(x) == << x >>

(***************************************************************************)
(* Python integer and bytes primitives used by the code.                   *)
(***************************************************************************)
Pow2(n) == 2 ^ n

\* x << n
Shl(x, n) == x * Pow2(n)

\* x >> n
Shr(x, n) == x \div Pow2(n)

\* x | y and x & y of two non-negative integers, bit by bit
RECURSIVE OrBits(_, _)
OrBits(x, y) ==
    IF x = 0 THEN y
    ELSE IF y = 0 THEN x
    ELSE (IF (x % 2 = 1) \/ (y % 2 = 1) THEN 1 ELSE 0)
         + 2 * OrBits(x \div 2, y \div 2)

RECURSIVE AndBits(_, _)
AndBits(x, y) ==
    IF x = 0 \/ y = 0 THEN 0
    ELSE (IF (x % 2 = 1) /\ (y % 2 = 1) THEN 1 ELSE 0)
         + 2 * AndBits(x \div 2, y \div 2)

\* the same on single bytes, tabulated
OrByte == [a \in 0..255 |-> [b \in 0..255 |-> OrBits(a, b)]]
AndByte == [a \in 0..255 |-> [b \in 0..255 |-> AndBits(a, b)]]

\* x | y on non-negative integers, byte by byte
RECURSIVE BitOr(_, _)
BitOr(x, y) ==
    IF x < 256 /\ y < 256 THEN OrByte[x][y]
    ELSE OrByte[x % 256][y % 256] + 256 * BitOr(x \div 256, y \div 256)

\* x & y on non-negative integers, byte by byte
RECURSIVE BitAnd(_, _)
BitAnd(x, y) ==
    IF x < 256 /\ y < 256 THEN AndByte[x][y]
    ELSE AndByte[x % 256][y % 256] + 256 * BitAnd(x \div 256, y \div 256)

\* data[i:] with a 0-based start, as Python slices: never an error
SliceFrom(data, i) ==
    IF i >= Len(data) THEN << >> ELSE SubSeq(data, i + 1, Len(data))

\* data[i:j] with 0-based bounds, clipped to the sequence as Python does
Slice(data, i, j) ==
    LET hi == IF j > Len(data) THEN Len(data) ELSE j
    IN IF i >= hi THEN << >> ELSE SubSeq(data, i + 1, hi)

\* int.to_bytes(2, "big"): OverflowError unless 0 <= x < 65536
ToBytes2Fits(x) == x >= 0 /\ x < 65536
ToBytes2Big(x) == << x \div 256, x % 256 >>

\* int.from_bytes(b, "little"), unsigned
RECURSIVE FromBytesLittle(_)
FromBytesLittle(b) ==
    IF Len(b) = 0 THEN 0
    ELSE b[1] + 256 * FromBytesLittle(Tail(b))

\* int.from_bytes(b, "little", signed=True): the two's complement value of
\* the bytes.  The most significant byte carries the sign, so the value is
\* accumulated from it downwards and stays inside the signed range of the
\* width at every step.
FromBytesLittleSigned(b) ==
    IF Len(b) = 0 THEN 0
    ELSE LET top == b[Len(b)]
             high == IF top >= 128 THEN top - 256 ELSE top
             low == FromBytesLittle(SubSeq(b, 1, Len(b) - 1))
         IN high * Pow2(8 * (Len(b) - 1)) + low

\* one lower-case hexadecimal digit as a code point
HexDigit(n) == IF n < 10 THEN 48 + n ELSE 87 + n

\* bytes.hex()
RECURSIVE Hex(_)
Hex(b) ==
    IF Len(b) = 0 THEN << >>
    ELSE << HexDigit(b[1] \div 16), HexDigit(b[1] % 16) >> \o Hex(Tail(b))

\* a UTF-8 continuation byte
IsCont(x) == x >= 128 /\ x <= 191

\* The length of the well-formed UTF-8 sequence at the head of b, or 0 when
\* there is none (the strict decoder's rules: no overlong forms, no
\* surrogates, nothing above U+10FFFF, no truncated sequence).
Utf8Len(b) ==
    LET n == Len(b)
        b0 == b[1]
    IN IF n = 0 THEN 0
       ELSE IF b0 < 128 THEN 1
       ELSE IF b0 >= 194 /\ b0 <= 223
            THEN IF n >= 2 /\ IsCont(b[2]) THEN 2 ELSE 0
       ELSE IF b0 >= 224 /\ b0 <= 239
            THEN IF n >= 3
                    /\ IsCont(b[2]) /\ IsCont(b[3])
                    /\ (b0 = 224 => b[2] >= 160)
                    /\ (b0 = 237 => b[2] <= 159)
                 THEN 3 ELSE 0
       ELSE IF b0 >= 240 /\ b0 <= 244
            THEN IF n >= 4
                    /\ IsCont(b[2]) /\ IsCont(b[3]) /\ IsCont(b[4])
                    /\ (b0 = 240 => b[2] >= 144)
                    /\ (b0 = 244 => b[2] <= 143)
                 THEN 4 ELSE 0
       ELSE 0

\* the code point of the well-formed sequence of length k at the head of b
Utf8CodePoint(b, k) ==
    IF k = 1 THEN b[1]
    ELSE IF k = 2 THEN (b[1] - 192) * 64 + (b[2] - 128)
    ELSE IF k = 3 THEN (b[1] - 224) * 4096 + (b[2] - 128) * 64 + (b[3] - 128)
    ELSE (b[1] - 240) * 262144 + (b[2] - 128) * 4096
         + (b[3] - 128) * 64 + (b[4] - 128)

\* whether bytes.decode() succeeds (no UnicodeDecodeError)
RECURSIVE Utf8Valid(_)
Utf8Valid(b) ==
    IF Len(b) = 0 THEN TRUE
    ELSE LET k == Utf8Len(b)
         IN k > 0 /\ Utf8Valid(SliceFrom(b, k))

\* bytes.decode() of bytes for which it succeeds
RECURSIVE Utf8Decode(_)
Utf8Decode(b) ==
    IF Len(b) = 0 THEN << >>
    ELSE LET k == Utf8Len(b)
         IN << Utf8CodePoint(b, k) >> \o Utf8Decode(SliceFrom(b, k))


(***************************************************************************)
(* The decoders, as functions of the session fields and the frame.  Each   *)
(* returns the session fields after the call together with what the call   *)
(* produced: the lines it printed (out), the EEGPacket parse_eeg_packet    *)
(* returned (pkt), the decoders it invoked (route) and the exception that  *)
(* left it (exc, "None" when it returned).                                 *)
(***************************************************************************)

\* the session fields of a result or of the state
Fields(r) ==
    [serial_number |-> r.serial_number, battery_level |-> r.battery_level]

\* a call that returns at once: nothing printed, nothing decoded
Returned(s) ==
    [serial_number |-> s.serial_number, battery_level |-> s.battery_level,
     out |-> << >>, pkt |-> None, route |-> << >>, exc |-> "None"]

\* a call left by exception e before it changed or printed anything
Raised(s, e) == [Returned(s) EXCEPT !.exc = e]

\* line 112
ResponseLine(feature_id, pdu_type, pdu_id, payload) ==
    << "Response", feature_id, pdu_type, pdu_id, Hex(payload) >>

\* line 119
SerialLine(serial_number) == << "Serial:", serial_number >>

\* line 122
BatteryLine(battery_level) == << "Battery:", battery_level >>

\* line 100
EEGLine(p) == << "EEG", p.index, Len(p.ch1), Len(p.ch2) >>

\* DecodeSerial falling back to the empty string
DecodeSerial_EmptyFallback(payload) ==
    IF Utf8Valid(payload) THEN Utf8Decode(payload) ELSE << >>

\* lines 115-118: payload.decode(), and payload.hex() in the handler of
\* UnicodeDecodeError
DecodeSerial(payload) ==
    IF Utf8Valid(payload) THEN Utf8Decode(payload) ELSE Hex(payload)

\* parse_response without its length guard
ResponseTooShort_Never(data) == FALSE

\* lines 105-106: the length guard of parse_response
ResponseTooShort(data) == Len(data) < 2

\* HeaderOf with the feature shift one bit short
HeaderOf_ShiftSlip(data) ==
    LET command_id == BitOr(Shl(data[1], 8), data[2])
    IN [feature_id |-> Shr(command_id, 8),
        pdu_type |-> BitAnd(Shr(command_id, 7), 3),
        pdu_id |-> BitAnd(command_id, 127)]

\* lines 107-110: the header fields of a frame of at least two bytes
HeaderOf(data) ==
    LET command_id == BitOr(Shl(data[1], 8), data[2])
    IN [feature_id |-> Shr(command_id, 9),
        pdu_type |-> BitAnd(Shr(command_id, 7), 3),
        pdu_id |-> BitAnd(command_id, 127)]

\* SessionUpdate applied whatever the PDU type
SessionUpdate_AnyType(s, h, payload) ==
    LET isSerial == h.feature_id = CORE_FEATURE /\ h.pdu_id = CMD_GET_SERIAL
        isBattery == h.feature_id = BATTERY_FEATURE
                     /\ h.pdu_id = CMD_GET_BATTERY
                     /\ Len(payload) > 0
        serial == IF isSerial THEN Some(DecodeSerial(payload))
                  ELSE s.serial_number
        battery == IF isBattery THEN Some(payload[1]) ELSE s.battery_level
    IN [serial_number |-> serial,
        battery_level |-> battery,
        out |-> (IF isSerial THEN << SerialLine(serial[1]) >> ELSE << >>)
                \o (IF isBattery THEN << BatteryLine(battery[1]) >>
                    ELSE << >>)]

\* SessionUpdate taking the last payload byte as the battery level
SessionUpdate_LastByte(s, h, payload) ==
    LET isSerial == h.pdu_type = PDU_RESPONSE
                    /\ h.feature_id = CORE_FEATURE
                    /\ h.pdu_id = CMD_GET_SERIAL
        isBattery == h.pdu_type = PDU_RESPONSE
                     /\ h.feature_id = BATTERY_FEATURE
                     /\ h.pdu_id = CMD_GET_BATTERY
                     /\ Len(payload) > 0
        serial == IF isSerial THEN Some(DecodeSerial(payload))
                  ELSE s.serial_number
        battery == IF isBattery THEN Some(payload[Len(payload)])
                   ELSE s.battery_level
    IN [serial_number |-> serial,
        battery_level |-> battery,
        out |-> (IF isSerial THEN << SerialLine(serial[1]) >> ELSE << >>)
                \o (IF isBattery THEN << BatteryLine(battery[1]) >>
                    ELSE << >>)]

\* lines 113-122: the session update of a decoded response
SessionUpdate(s, h, payload) ==
    LET isSerial == h.pdu_type = PDU_RESPONSE
                    /\ h.feature_id = CORE_FEATURE
                    /\ h.pdu_id = CMD_GET_SERIAL
        isBattery == h.pdu_type = PDU_RESPONSE
                     /\ h.feature_id = BATTERY_FEATURE
                     /\ h.pdu_id = CMD_GET_BATTERY
                     /\ Len(payload) > 0
        serial == IF isSerial THEN Some(DecodeSerial(payload))
                  ELSE s.serial_number
        battery == IF isBattery THEN Some(payload[1]) ELSE s.battery_level
    IN [serial_number |-> serial,
        battery_level |-> battery,
        out |-> (IF isSerial THEN << SerialLine(serial[1]) >> ELSE << >>)
                \o (IF isBattery THEN << BatteryLine(battery[1]) >>
                    ELSE << >>)]

\* lines 104-122
parse_response(s, data) ==
    IF ResponseTooShort(data) THEN Returned(s)
    ELSE IF Len(data) < 2 THEN Raised(s, "IndexError")  \* data[0], data[1]
    ELSE LET h == HeaderOf(data)
             payload == SliceFrom(data, 2)
             u == SessionUpdate(s, h, payload)
         IN [serial_number |-> u.serial_number,
             battery_level |-> u.battery_level,
             out |-> << ResponseLine(h.feature_id, h.pdu_type, h.pdu_id,
                                     payload) >> \o u.out,
             pkt |-> None, route |-> << >>, exc |-> "None"]

\* the length guard of parse_eeg_packet asking for the two header bytes only
EegTooShort_Two(data) == Len(data) < 2

\* lines 125-126: the length guard of parse_eeg_packet
EegTooShort(data) == Len(data) < 4

\* Samples without the test for a complete stride
RECURSIVE Samples_NoStrideTest(_, _, _)
Samples_NoStrideTest(payload, i, off) ==
    IF i >= Len(payload) THEN << >>
    ELSE << FromBytesLittleSigned(Slice(payload, i + off, i + off + 4)) >>
         \o Samples_NoStrideTest(payload, i + 8, off)

\* Samples reading both channels from the first group of the stride
RECURSIVE Samples_SameGroup(_, _, _)
Samples_SameGroup(payload, i, off) ==
    IF i >= Len(payload) THEN << >>
    ELSE (IF i + 8 <= Len(payload)
          THEN << FromBytesLittleSigned(Slice(payload, i, i + 4)) >>
          ELSE << >>)
         \o Samples_SameGroup(payload, i + 8, off)

\* lines 132-135: the loop over range(0, len(payload), 8), from offset i;
\* off is 0 for channel 1 and 4 for channel 2
RECURSIVE Samples(_, _, _)
Samples(payload, i, off) ==
    IF i >= Len(payload) THEN << >>
    ELSE (IF i + 8 <= Len(payload)
          THEN << FromBytesLittleSigned(Slice(payload, i + off, i + off + 4)) >>
          ELSE << >>)
         \o Samples(payload, i + 8, off)

\* parse_eeg_packet decoding only as many bytes as the length byte says
parse_eeg_packet_TrustLength(data) ==
    IF EegTooShort(data) THEN [pkt |-> None, exc |-> "None"]
    ELSE IF Len(data) < 2 THEN [pkt |-> None, exc |-> "IndexError"]
    ELSE LET payload == Slice(data, 4, 4 + data[2])
         IN [pkt |-> Some([index |-> FromBytesLittle(Slice(data, 2, 4)),
                           ch1 |-> Samples(payload, 0, 0),
                           ch2 |-> Samples(payload, 0, 4)]),
             exc |-> "None"]

\* lines 124-136: the EEGPacket returned (None for a short frame) and the
\* exception raised; line 127 indexes data[1], the rest are slices
parse_eeg_packet(data) ==
    IF EegTooShort(data) THEN [pkt |-> None, exc |-> "None"]
    ELSE IF Len(data) < 2 THEN [pkt |-> None, exc |-> "IndexError"]
    ELSE LET payload == SliceFrom(data, 4)
         IN [pkt |-> Some([index |-> FromBytesLittle(Slice(data, 2, 4)),
                           ch1 |-> Samples(payload, 0, 0),
                           ch2 |-> Samples(payload, 0, 4)]),
             exc |-> "None"]

\* IsEEG testing the length byte instead of the type byte
IsEEG_WrongByte(data) == Len(data) >= 2 /\ data[2] = EEG_PACKET_TYPE

\* line 97: the discriminant test on data[0]
IsEEG(data) == data[1] = EEG_PACKET_TYPE

\* lines 93-102
handle_notification(s, data) ==
    IF Len(data) = 0 THEN Returned(s)
    ELSE IF IsEEG(data)
    THEN LET r == parse_eeg_packet(data)
         IN [Returned(s) EXCEPT
               !.pkt = r.pkt,
               !.exc = r.exc,
               !.route = << "parse_eeg_packet" >>,
               !.out = IF r.pkt # None THEN << EEGLine(r.pkt[1]) >>
                       ELSE << >>]
    ELSE [parse_response(s, data) EXCEPT !.route = << "parse_response" >>]

(***************************************************************************)
(* The command encoder.                                                    *)
(***************************************************************************)

\* CommandId with the PDU type one bit higher
CommandId_TypeAtBit8(feature_id, pdu_type, pdu_id) ==
    BitOr(BitOr(Shl(feature_id, 9), Shl(pdu_type, 8)), pdu_id)

\* line 77
CommandId(feature_id, pdu_type, pdu_id) ==
    BitOr(BitOr(Shl(feature_id, 9), Shl(pdu_type, 7)), pdu_id)

\* line 78, for a cmd_id that fits two bytes
CommandFrame(feature_id, pdu_type, pdu_id, data) ==
    ToBytes2Big(CommandId(feature_id, pdu_type, pdu_id)) \o data

\* lines 74-80, given the client object (cl), the link state (conn) and
\* whether the transport accepts the write (ok): the exception raised and
\* the frames handed to the transport
send_command(cl, conn, feature_id, pdu_type, pdu_id, data, ok) ==
    IF cl = "None"
    THEN [exc |-> "RuntimeError", written |-> << >>]      \* "Not connected"
    ELSE IF ~ToBytes2Fits(CommandId(feature_id, pdu_type, pdu_id))
    THEN [exc |-> "OverflowError", written |-> << >>]     \* to_bytes(2, ...)
    ELSE IF ~(conn /\ ok)
    THEN [exc |-> "BleakError", written |-> << >>]        \* write_gatt_char
    ELSE [exc |-> "None",
          written |-> << CommandFrame(feature_id, pdu_type, pdu_id, data) >>]

(***************************************************************************)
(* State.                                                                  *)
(***************************************************************************)
VARIABLES
    client,         \* self.client: "None" or "BleakClient"
    is_connected,   \* self.client.is_connected
    notifying,      \* the notification callback is registered
    serial_number,  \* self.serial_number, Optional[str]
    battery_level,  \* self.battery_level, Optional[int]
    pc,             \* where the caller's coroutine is suspended
    wire,           \* the frames write_gatt_char has written, in order
    inbox,          \* the frames delivered to the callback, in order
    sink,           \* the lines the callback has printed, in order
    call,           \* the latest operation and its arguments
    cmd,            \* the arguments of the latest send_command
    exc,            \* the exception that left the latest operation
    out,            \* the lines the latest operation printed
    pkt,            \* the EEGPacket the latest operation decoded
    route           \* the decoders the latest handle_notification invoked

vars == << client, is_connected, notifying, serial_number, battery_level,
           pc, wire, inbox, sink, call, cmd, exc, out, pkt, route >>

link == << client, is_connected, notifying >>
session == << serial_number, battery_level >>
history == << inbox, sink >>

\* the session fields of the state
Session == [serial_number |-> serial_number, battery_level |-> battery_level]

Op(name, args) == [op |-> name, args |-> args]

\* lines 42-45, and main() about to call scan_and_connect (line 141)
Init ==
    /\ client = "None"
    /\ is_connected = FALSE
    /\ notifying = FALSE
    /\ serial_number = None
    /\ battery_level = None
    /\ pc = "scan"
    /\ wire = << >>
    /\ inbox = << >>
    /\ sink = << >>
    /\ call = Op("__init__", << >>)
    /\ cmd = None
    /\ exc = "None"
    /\ out = << >>
    /\ pkt = None
    /\ route = << >>

(***************************************************************************)
(* main() and the coroutines it awaits.  A step runs the caller from one   *)
(* suspension point to the next; a pacing sleep and the command that       *)
(* follows it are one step, the callback being free to run before and      *)
(* after it.  An exception raised outside the try block, or inside the     *)
(* finally block, ends main() there.                                       *)
(***************************************************************************)

\* a step of the caller that decodes nothing
NoDecode == out' = << >> /\ pkt' = None /\ route' = << >>

\* one await self.send_command(...) of a coroutine, which goes on at next
Send(feature_id, pdu_type, pdu_id, data, ok, next) ==
    LET r == send_command(client, is_connected, feature_id, pdu_type, pdu_id,
                          data, ok)
    IN /\ wire' = wire \o r.written
       /\ exc' = r.exc
       /\ call' = Op("send_command", << feature_id, pdu_type, pdu_id, data >>)
       /\ cmd' = Some(<< feature_id, pdu_type, pdu_id, data >>)
       /\ pc' = IF r.exc = "None" THEN next ELSE "done"
       /\ NoDecode
       /\ UNCHANGED << link, session, history >>

\* lines 49-59: discover, pick the target, build the client
Scan ==
    /\ pc = "scan"
    /\ \E found \in BOOLEAN :
         /\ client' = IF found THEN "BleakClient" ELSE client
         /\ exc' = IF found THEN "None" ELSE "RuntimeError"
         /\ pc' = IF found THEN "connect" ELSE "done"
    /\ call' = Op("discover", << >>)
    /\ NoDecode
    /\ UNCHANGED << is_connected, notifying, session, wire, history, cmd >>

\* line 60
Connect ==
    /\ pc = "connect"
    /\ is_connected' = TRUE
    /\ pc' = "start_notify"
    /\ call' = Op("connect", << >>)
    /\ exc' = "None"
    /\ NoDecode
    /\ UNCHANGED << client, notifying, session, wire, history, cmd >>

\* line 61
StartNotify ==
    /\ pc = "start_notify"
    /\ notifying' = TRUE
    /\ pc' = "get_serial"
    /\ call' = Op("start_notify", << >>)
    /\ exc' = "None"
    /\ NoDecode
    /\ UNCHANGED << client, is_connected, session, wire, history, cmd >>

\* scan_and_connect asking for the battery level first
GetSerial_BatteryFirst ==
    /\ pc = "get_serial"
    /\ \E ok \in BOOLEAN :
         Send(BATTERY_FEATURE, PDU_COMMAND, CMD_GET_BATTERY, << >>, ok,
              "get_battery")

\* lines 64-65
GetSerial ==
    /\ pc = "get_serial"
    /\ \E ok \in BOOLEAN :
         Send(CORE_FEATURE, PDU_COMMAND, CMD_GET_SERIAL, << >>, ok,
              "get_battery")

\* lines 66-67; scan_and_connect returns and main() goes on to line 142
GetBattery ==
    /\ pc = "get_battery"
    /\ \E ok \in BOOLEAN :
         Send(BATTERY_FEATURE, PDU_COMMAND, CMD_GET_BATTERY, << >>, ok,
              "start_streaming")

\* lines 82-86 up to the first write: start_streaming(use_test_signal)
StartStreaming ==
    /\ pc = "start_streaming"
    /\ \E use_test_signal \in BOOLEAN, ok \in BOOLEAN :
         IF use_test_signal
         THEN Send(SENSOR_CFG_FEATURE, PDU_COMMAND, CMD_TEST_SIGNAL_CTRL,
                   << 1 >>, ok, "stream_on")
         ELSE Send(SENSOR_CFG_FEATURE, PDU_COMMAND, CMD_STREAM_CTRL,
                   << 1 >>, ok, "streaming")

\* lines 85-86, after the test signal was enabled
StreamOn ==
    /\ pc = "stream_on"
    /\ \E ok \in BOOLEAN :
         Send(SENSOR_CFG_FEATURE, PDU_COMMAND, CMD_STREAM_CTRL, << 1 >>, ok,
              "streaming")

\* lines 144-146 and 89: the sleep ends and stop_streaming starts
StopStream ==
    /\ pc = "streaming"
    /\ \E ok \in BOOLEAN :
         Send(SENSOR_CFG_FEATURE, PDU_COMMAND, CMD_STREAM_CTRL, << 0 >>, ok,
              "stop_test")

\* line 90
StopTest ==
    /\ pc = "stop_test"
    /\ \E ok \in BOOLEAN :
         Send(SENSOR_CFG_FEATURE, PDU_COMMAND, CMD_TEST_SIGNAL_CTRL, << 0 >>,
              ok, "disconnect")

\* lines 147, 70-71
Disconnect ==
    /\ pc = "disconnect"
    /\ IF client # "None" /\ is_connected
       THEN notifying' = FALSE /\ pc' = "close"
       ELSE notifying' = notifying /\ pc' = "done"
    /\ call' = Op("disconnect", << >>)
    /\ exc' = "None"
    /\ NoDecode
    /\ UNCHANGED << client, is_connected, session, wire, history, cmd >>

\* line 72
Close ==
    /\ pc = "close"
    /\ is_connected' = FALSE
    /\ pc' = "done"
    /\ call' = Op("disconnect", << >>)
    /\ exc' = "None"
    /\ NoDecode
    /\ UNCHANGED << client, notifying, session, wire, history, cmd >>

(***************************************************************************)
(* Decoding steps.                                                         *)
(***************************************************************************)

\* the state after a decoding operation `name` on `data` with result r,
\* the caller going on at next
Decode(name, data, r, next) ==
    /\ serial_number' = r.serial_number
    /\ battery_level' = r.battery_level
    /\ out' = r.out
    /\ pkt' = r.pkt
    /\ route' = r.route
    /\ exc' = r.exc
    /\ call' = Op(name, << data >>)
    /\ pc' = next
    /\ UNCHANGED << link, wire, cmd >>

\* parse_eeg_packet called on its own: it touches no session field and
\* prints nothing
EegResult(s, data) ==
    LET r == parse_eeg_packet(data)
    IN [Returned(s) EXCEPT !.pkt = r.pkt, !.exc = r.exc]

(***************************************************************************)
(* Bounds and input sets.                                                  *)
(***************************************************************************)

\* frames the transport delivers in one run of main()
MaxFrames == 3

\* complete strides in a generated EEG frame
MaxStrides == 2

\* largest feature_id, pdu_type and pdu_id passed to send_command
MaxFeatureArg == 129
MaxTypeArg == 5
MaxIdArg == 129

\* the frames delivered while main() runs: a one-byte frame,
\* a short EEG frame, a serial response, battery responses
\* (one byte, two bytes, none), the serial header with type COMMAND and
\* with type ERROR, the battery header with type NOTIFICATION, a response
\* of another feature, an EEG frame of one stride
SessionFrames ==
    { << 1 >>,
      << 4, 0, 5 >>,
      << 1, 1, 78, 67 >>,
      << 7, 0, 90 >>,
      << 7, 0, 17, 34 >>,
      << 7, 0 >>,
      << 0, 1, 65 >>,
      << 1, 129, 66 >>,
      << 6, 128, 91 >>,
      << 3, 1, 67 >>,
      << 4, 8, 1, 0, 1, 0, 0, 0, 2, 0, 0, 0 >> }

\* payloads of a serial response: empty, ASCII, well-formed sequences of
\* two, three and four bytes, and ill-formed ones (truncated, lone
\* continuation, invalid lead byte, overlong, surrogate, above U+10FFFF,
\* text followed by an invalid byte)
SerialPayloads ==
    { << >>, << 65 >>, << 78, 67 >>, << 0 >>,
      << 195, 169 >>, << 226, 130, 172 >>, << 240, 159, 152, 128 >>,
      << 195 >>, << 128 >>, << 255 >>, << 192, 128 >>, << 224, 128, 128 >>,
      << 237, 160, 128 >>, << 244, 144, 128, 128 >>, << 65, 255 >> }

\* payloads of a battery response
BatteryPayloads ==
    { << >>, << 90 >>, << 0 >>, << 255 >>, << 17, 34 >> }

\* two-byte headers: every feature 0..3 with every PDU type and ids 0, 1
\* (first bytes 0..7, 4 among them), and one far header
Headers ==
    { << hi, lo >> : hi \in 0..7, lo \in {0, 1, 128, 129} }
    \cup { << 255, 255 >> }

\* frames the response decoder is given
GenericFrames ==
    { << b >> : b \in {0, 1, 7, 255} }
    \cup { << 1, 1 >> \o p : p \in SerialPayloads }
    \cup { << 7, 0 >> \o p : p \in BatteryPayloads }
    \cup { h \o p : h \in Headers, p \in { << >>, << 90 >> } }

\* one stride: a channel-1 group and a channel-2 group
Strides ==
    { << 1, 0, 0, 0, 2, 0, 0, 0 >>,
      << 255, 255, 255, 255, 0, 0, 0, 128 >>,
      << 255, 255, 255, 127, 254, 255, 255, 255 >> }

\* sample bytes of exactly n strides
RECURSIVE StrideSeqs(_)
StrideSeqs(n) ==
    IF n = 0 THEN { << >> }
    ELSE { s \o t : s \in Strides, t \in StrideSeqs(n - 1) }

\* bytes after the last complete stride
Trails == { << >>, << 9, 9 >>, << 9, 9, 9, 9, 9, 9, 128 >> }

\* type, length byte and index of an EEG frame
EegHeaders == { << 4, 0, 5, 0 >>, << 4, 8, 1, 0 >>, << 4, 255, 255, 255 >> }

\* frames the EEG decoder is given
EegFrames ==
    { << 4 >>, << 4, 0 >>, << 4, 0, 5 >> }
    \cup { h \o b \o t : h \in EegHeaders,
                        b \in UNION { StrideSeqs(n) : n \in 0..MaxStrides },
                        t \in Trails }

\* frames delivered to the callback when the decoders are exercised
Frames == { << >> } \cup GenericFrames \cup EegFrames

\* frames handed to a decoder directly, bypassing the demultiplexer
DirectFrames ==
    { << >>, << 0 >>, << 4 >>, << 4, 0, 5 >>, << 1, 1 >>, << 1, 1, 78, 67 >>,
      << 7, 0, 90 >>, << 4, 0, 5, 0 >>,
      << 4, 8, 1, 0, 1, 0, 0, 0, 2, 0, 0, 0 >>,
      << 1, 1, 1, 0, 255, 255, 255, 255, 0, 0, 0, 128 >> }

\* payloads passed to send_command
DataArgs == { << >>, << 0, 255 >> }

(***************************************************************************)
(* The callback.                                                           *)
(***************************************************************************)

\* the callback ignoring what arrives before any command was written
NotifyFrom_OnlySolicited(F, next) ==
    \E data \in F :
      LET r == IF wire = << >> THEN Returned(Session)
               ELSE handle_notification(Session, data)
      IN /\ Decode("handle_notification", data, r, next)
         /\ inbox' = Append(inbox, data)
         /\ sink' = sink \o r.out

\* the callback discarding a frame it has already been given
NotifyFrom_DropsRepeats(F, next) ==
    \E data \in F :
      LET seen == \E k \in 1..Len(inbox) : inbox[k] = data
          r == IF seen THEN Returned(Session)
               ELSE handle_notification(Session, data)
      IN /\ Decode("handle_notification", data, r, next)
         /\ inbox' = Append(inbox, data)
         /\ sink' = sink \o r.out

\* the transport delivers one frame of F: lines 93-102 run to completion
\* between two steps of the caller, which goes on at next
NotifyFrom(F, next) ==
    \E data \in F :
      LET r == handle_notification(Session, data)
      IN /\ Decode("handle_notification", data, r, next)
         /\ inbox' = Append(inbox, data)
         /\ sink' = sink \o r.out

\* a frame arrives while main() runs
Notify ==
    /\ notifying
    /\ is_connected
    /\ pc # "done"
    /\ Len(inbox) < MaxFrames
    /\ NotifyFrom(SessionFrames, pc)

Next ==
    \/ Scan
    \/ Connect
    \/ StartNotify
    \/ GetSerial
    \/ GetBattery
    \/ StartStreaming
    \/ StreamOn
    \/ StopStream
    \/ StopTest
    \/ Disconnect
    \/ Close
    \/ Notify

Spec == Init /\ [][Next]_vars

(***************************************************************************)
(* The API used directly on a connected session.                           *)
(***************************************************************************)

\* the session fields and the printed lines once the callback has run on
\* one more frame
AfterFrame(s, data) ==
    LET r == handle_notification(s, data)
    IN [serial_number |-> r.serial_number,
        battery_level |-> r.battery_level,
        sink |-> s.sink \o r.out]

\* the same once it has run on each frame of a sequence in turn
RECURSIVE ReplayFrom(_, _)
ReplayFrom(s, frames) ==
    IF Len(frames) = 0 THEN s
    ELSE ReplayFrom(AfterFrame(s, Head(frames)), Tail(frames))

\* the session fields and the printed lines after the frames, from a new
\* client
Replay(frames) ==
    ReplayFrom([serial_number |-> None, battery_level |-> None,
                sink |-> << >>], frames)

\* what has arrived by the time the API is used: nothing, both
\* identification responses, or a serial response alone
KnownInboxes ==
    { << >>,
      << << 1, 1, 78, 67 >>, << 7, 0, 90 >> >>,
      << << 1, 1, 255 >> >> }

\* scan_and_connect has returned and the frames of `arrived` were
\* delivered
ApiState(arrived) ==
    /\ client = "BleakClient"
    /\ is_connected = TRUE
    /\ notifying = TRUE
    /\ serial_number = Replay(arrived).serial_number
    /\ battery_level = Replay(arrived).battery_level
    /\ pc = "api"
    /\ wire = << << 0, 1 >>, << 6, 0 >> >>
    /\ inbox = arrived
    /\ sink = Replay(arrived).sink
    /\ call = Op("scan_and_connect", << >>)
    /\ cmd = Some(<< BATTERY_FEATURE, PDU_COMMAND, CMD_GET_BATTERY, << >> >>)
    /\ exc = "None"
    /\ out = << >>
    /\ pkt = None
    /\ route = << >>

InitApi == \E arrived \in KnownInboxes : ApiState(arrived)

\* the callback on any frame
Deliver ==
    /\ pc = "api"
    /\ notifying
    /\ is_connected
    /\ NotifyFrom(Frames, "api_done")

\* parse_response called directly
CallParseResponse ==
    /\ pc = "api"
    /\ \E data \in DirectFrames :
         Decode("parse_response", data, parse_response(Session, data),
                "api_done")
    /\ UNCHANGED history

\* parse_eeg_packet called directly
CallParseEeg ==
    /\ pc = "api"
    /\ \E data \in DirectFrames :
         Decode("parse_eeg_packet", data, EegResult(Session, data),
                "api_done")
    /\ UNCHANGED history

NextNotify == Deliver \/ CallParseResponse \/ CallParseEeg

SpecNotify == InitApi /\ [][NextNotify]_vars

\* send_command called with any arguments, the transport accepting the
\* write
ApiSendCommand ==
    /\ pc = "api"
    /\ \E feature_id \in 0..MaxFeatureArg, pdu_type \in 0..MaxTypeArg,
          pdu_id \in 0..MaxIdArg, data \in DataArgs :
         Send(feature_id, pdu_type, pdu_id, data, TRUE, "api_sent")

\* the frame just written is handed to parse_response
Loopback ==
    /\ pc = "api_sent"
    /\ LET data == wire[Len(wire)]
       IN Decode("parse_response", data, parse_response(Session, data),
                 "api_done")
    /\ UNCHANGED history

\* a frame with the header and payload just written is delivered to the
\* callback
Echo ==
    /\ pc = "api_sent"
    /\ notifying
    /\ is_connected
    /\ NotifyFrom({ wire[Len(wire)] }, "api_done")

NextCodec == ApiSendCommand \/ Loopback \/ Echo

SpecCodec == ApiState(<< >>) /\ [][NextCodec]_vars

(***************************************************************************)
(* The coroutines called one after another by a caller of its own, each    *)
(* run from its call to its return or to the exception that leaves it.     *)
(***************************************************************************)

\* the arguments of the commands the client sends (lines 65, 67, 84, 86,
\* 89, 90)
GetSerialArgs == << CORE_FEATURE, PDU_COMMAND, CMD_GET_SERIAL, << >> >>
GetBatteryArgs == << BATTERY_FEATURE, PDU_COMMAND, CMD_GET_BATTERY, << >> >>
TestOnArgs ==
    << SENSOR_CFG_FEATURE, PDU_COMMAND, CMD_TEST_SIGNAL_CTRL, << 1 >> >>
StreamOnArgs == << SENSOR_CFG_FEATURE, PDU_COMMAND, CMD_STREAM_CTRL, << 1 >> >>
StreamOffArgs ==
    << SENSOR_CFG_FEATURE, PDU_COMMAND, CMD_STREAM_CTRL, << 0 >> >>
TestOffArgs ==
    << SENSOR_CFG_FEATURE, PDU_COMMAND, CMD_TEST_SIGNAL_CTRL, << 0 >> >>

\* await self.send_command(...) for each element of `sends` in turn, oks
\* being the transport's verdict on each write: the first exception leaves
\* the coroutine; `last` is the arguments of the last send_command called
RECURSIVE RunSends(_, _, _, _)
RunSends(cl, conn, sends, oks) ==
    IF Len(sends) = 0
    THEN [exc |-> "None", written |-> << >>, last |-> None]
    ELSE LET a == Head(sends)
             r == send_command(cl, conn, a[1], a[2], a[3], a[4], Head(oks))
             rest == RunSends(cl, conn, Tail(sends), Tail(oks))
         IN IF r.exc # "None"
            THEN [exc |-> r.exc, written |-> << >>, last |-> Some(a)]
            ELSE [exc |-> rest.exc,
                  written |-> r.written \o rest.written,
                  last |-> IF rest.last = None THEN Some(a) ELSE rest.last]

\* start_streaming enabling the test signal whatever its argument
start_streaming_AlwaysTest(cl, conn, use_test_signal, oks) ==
    RunSends(cl, conn, << TestOnArgs, StreamOnArgs >>, oks)

\* lines 82-86
start_streaming(cl, conn, use_test_signal, oks) ==
    RunSends(cl, conn,
             IF use_test_signal THEN << TestOnArgs, StreamOnArgs >>
                                ELSE << StreamOnArgs >>,
             oks)

\* stop_streaming with its two lines exchanged
stop_streaming_TestFirst(cl, conn, oks) ==
    RunSends(cl, conn, << TestOffArgs, StreamOffArgs >>, oks)

\* lines 88-90
stop_streaming(cl, conn, oks) ==
    RunSends(cl, conn, << StreamOffArgs, TestOffArgs >>, oks)

\* lines 69-72: the link after disconnect()
disconnect(cl, conn, notif) ==
    IF cl # "None" /\ conn
    THEN [client |-> cl, is_connected |-> FALSE, notifying |-> FALSE]
    ELSE [client |-> cl, is_connected |-> conn, notifying |-> notif]

\* lines 47-67: the link after scan_and_connect(), and what it wrote
scan_and_connect(cl, conn, notif, found, oks) ==
    IF ~found
    THEN [client |-> cl, is_connected |-> conn, notifying |-> notif,
          exc |-> "RuntimeError", written |-> << >>, last |-> None]
    ELSE LET r == RunSends("BleakClient", TRUE,
                           << GetSerialArgs, GetBatteryArgs >>, oks)
         IN [client |-> "BleakClient", is_connected |-> TRUE,
             notifying |-> TRUE,
             exc |-> r.exc, written |-> r.written, last |-> r.last]

\* frames written before the caller stops making calls
MaxWritten == 4

\* the transport's verdicts on the writes of one coroutine
OkSeqs == { << a, b >> : a \in BOOLEAN, b \in BOOLEAN }

\* arguments the caller passes to send_command itself
CallArgs == { GetSerialArgs, GetBatteryArgs, StreamOnArgs }

\* a new client, nothing called yet (lines 42-45)
InitCalls ==
    /\ client = "None"
    /\ is_connected = FALSE
    /\ notifying = FALSE
    /\ serial_number = None
    /\ battery_level = None
    /\ pc = "call"
    /\ wire = << >>
    /\ inbox = << >>
    /\ sink = << >>
    /\ call = Op("__init__", << >>)
    /\ cmd = None
    /\ exc = "None"
    /\ out = << >>
    /\ pkt = None
    /\ route = << >>

\* the state after a coroutine `name` that sent commands with result r
Called(name, args, r) ==
    /\ Len(wire) < MaxWritten
    /\ pc = "call"
    /\ wire' = wire \o r.written
    /\ exc' = r.exc
    /\ call' = Op(name, args)
    /\ cmd' = IF r.last = None THEN cmd ELSE r.last
    /\ NoDecode
    /\ UNCHANGED << pc, session, history >>

CallScanAndConnect ==
    \E found \in BOOLEAN, oks \in OkSeqs :
      LET r == scan_and_connect(client, is_connected, notifying, found, oks)
      IN /\ Called("scan_and_connect", << >>, r)
         /\ client' = r.client
         /\ is_connected' = r.is_connected
         /\ notifying' = r.notifying

CallSendCommand ==
    \E a \in CallArgs, ok \in BOOLEAN :
      /\ Called("send_command", a,
                RunSends(client, is_connected, << a >>, << ok >>))
      /\ UNCHANGED link

CallStartStreaming ==
    \E use_test_signal \in BOOLEAN, oks \in OkSeqs :
      /\ Called("start_streaming", << use_test_signal >>,
                start_streaming(client, is_connected, use_test_signal, oks))
      /\ UNCHANGED link

CallStopStreaming ==
    \E oks \in OkSeqs :
      /\ Called("stop_streaming", << >>,
                stop_streaming(client, is_connected, oks))
      /\ UNCHANGED link

CallDisconnect ==
    LET l == disconnect(client, is_connected, notifying)
    IN /\ Called("disconnect", << >>,
                 [exc |-> "None", written |-> << >>, last |-> None])
       /\ client' = l.client
       /\ is_connected' = l.is_connected
       /\ notifying' = l.notifying

NextCalls ==
    \/ CallScanAndConnect
    \/ CallSendCommand
    \/ CallStartStreaming
    \/ CallStopStreaming
    \/ CallDisconnect

SpecCalls == InitCalls /\ [][NextCalls]_vars

(***************************************************************************)
(* The callback while main() sleeps in its try block (line 144).           *)
(***************************************************************************)

\* frames delivered in a row while streaming
MaxStreamFrames == 3

\* frames delivered while streaming: EEG frames with index 1, 3, 0 and
\* 256 (a whole stride, a whole stride, no sample, a partial stride), a
\* short EEG frame and a battery response
StreamFrames ==
    { << 4, 8, 1, 0, 1, 0, 0, 0, 2, 0, 0, 0 >>,
      << 4, 8, 3, 0, 255, 255, 255, 255, 0, 0, 0, 128 >>,
      << 4, 0, 0, 0 >>,
      << 4, 3, 0, 1, 9, 9, 9 >>,
      << 4, 0, 5 >>,
      << 7, 0, 90 >> }

\* start_streaming(use_test_signal=True) has returned (line 142) and
\* nothing has been received
InitStream ==
    /\ client = "BleakClient"
    /\ is_connected = TRUE
    /\ notifying = TRUE
    /\ serial_number = None
    /\ battery_level = None
    /\ pc = "streaming"
    /\ wire = << << 0, 1 >>, << 6, 0 >>, << 2, 1, 1 >>, << 2, 0, 1 >> >>
    /\ inbox = << >>
    /\ sink = << >>
    /\ call = Op("send_command", StreamOnArgs)
    /\ cmd = Some(StreamOnArgs)
    /\ exc = "None"
    /\ out = << >>
    /\ pkt = None
    /\ route = << >>

\* a frame arrives during the sleep
Receive ==
    /\ pc = "streaming"
    /\ notifying
    /\ is_connected
    /\ Len(inbox) < MaxStreamFrames
    /\ NotifyFrom(StreamFrames, "streaming")

NextStream == Receive

SpecStream == InitStream /\ [][NextStream]_vars

(***************************************************************************)
(* Properties.                                                             *)
(***************************************************************************)

\* the operation of the latest step and the frame it was given
LastOp == call.op
LastData == call.args[1]

\* the arguments of the latest send_command
SentFeature == cmd[1][1]
SentType == cmd[1][2]
SentId == cmd[1][3]
SentData == cmd[1][4]

\* the arguments of the latest send_command are within their bit widths
SentInRange == SentFeature <= 127 /\ SentType <= 3 /\ SentId <= 127

\* C1: round trip.  For every feature_id in 0..127, pdu_type in 0..3,
\* pdu_id in 0..127 and payload, send_command writes a two-byte big-endian
\* header whose value is feature_id * 512 + pdu_type * 128 + pdu_id,
\* followed by the payload unchanged, and parse_response on that frame
\* reports exactly the same feature_id, pdu_type, pdu_id and payload.
C1_RoundTrip ==
    (pc = "api_done" /\ LastOp = "parse_response" /\ SentInRange) =>
        /\ Len(LastData) = 2 + Len(SentData)
        /\ LastData[1] * 256 + LastData[2]
             = SentFeature * 512 + SentType * 128 + SentId
        /\ \A k \in 1..Len(SentData) : LastData[2 + k] = SentData[k]
        /\ exc = "None"
        /\ Len(out) >= 1
        /\ out[1] = << "Response", SentFeature, SentType, SentId,
                       Hex(SentData) >>

\* C1 witness: the largest in-range header with a payload went round
C1_Witness ==
    /\ pc = "api_done"
    /\ LastOp = "parse_response"
    /\ cmd = Some(<< 127, 3, 127, << 0, 255 >> >>)
    /\ LastData = << 255, 255, 0, 255 >>

\* C2: a send_command with a field out of range (feature_id > 127,
\* pdu_type > 3 or pdu_id > 127) fails with an error and writes no frame.
C2_OutOfRangeRejected ==
    (LastOp = "send_command" /\ ~SentInRange) =>
        /\ exc # "None"
        /\ Len(wire) = 2

\* C2 witness: pdu_type 4 was accepted and written as the header of
\* feature 1
C2_Witness ==
    /\ LastOp = "send_command"
    /\ cmd = Some(<< 0, 4, 0, << >> >>)
    /\ exc = "None"
    /\ wire[Len(wire)] = << 2, 0 >>

\* the latest step gave a frame to the callback / to a decoder
Notified == LastOp = "handle_notification"
ResponseDecoded ==
    \/ LastOp = "parse_response"
    \/ Notified /\ Len(LastData) > 0 /\ LastData[1] # 4
EegDecoded ==
    \/ LastOp = "parse_eeg_packet"
    \/ Notified /\ Len(LastData) > 0 /\ LastData[1] = 4

\* a frame carrying the two-byte header of (feature_id, pdu_type, pdu_id)
HasHeader(data, feature_id, pdu_type, pdu_id) ==
    /\ Len(data) >= 2
    /\ data[1] * 256 + data[2] = feature_id * 512 + pdu_type * 128 + pdu_id

IsSerialResponse(data) ==
    HasHeader(data, CORE_FEATURE, PDU_RESPONSE, CMD_GET_SERIAL)
IsBatteryResponse(data) ==
    HasHeader(data, BATTERY_FEATURE, PDU_RESPONSE, CMD_GET_BATTERY)

\* C3: in every step, serial_number changes only when the callback
\* processes a generic frame with the header (CORE, RESPONSE, GET_SERIAL),
\* and battery_level only when it processes one with the header (BATTERY,
\* RESPONSE, GET_BATTERY); EEG frames, other headers, other PDU types,
\* every command sent, start_streaming, stop_streaming and disconnect
\* leave both fields as they were.
C3_FieldsChangeOnlyOnMatch ==
    [][ /\ serial_number' # serial_number =>
             /\ call'.op = "handle_notification"
             /\ IsSerialResponse(call'.args[1])
        /\ battery_level' # battery_level =>
             /\ call'.op = "handle_notification"
             /\ IsBatteryResponse(call'.args[1])
      ]_vars

\* C3 witness: both fields were set by responses, commands were sent
\* afterwards, and main() has disconnected with the values retained
C3_Witness ==
    /\ pc = "done"
    /\ ~is_connected
    /\ Len(wire) = 6
    /\ serial_number = Some(<< 78, 67 >>)
    /\ battery_level = Some(90)
    /\ inbox = << << 1, 1, 78, 67 >>, << 7, 0, 90 >>, << 6, 128, 91 >> >>

\* C4: an empty frame invokes no decoder, prints nothing, raises nothing
\* and changes no field; a frame whose first byte is 0x04 goes to the EEG
\* decoder alone (an EEGPacket comes back when it has 4 bytes or more, and
\* no response line is printed); any other frame goes to the response
\* decoder alone (no EEGPacket, and a response line when it has 2 bytes or
\* more).
C4_Routing ==
    Notified =>
        IF Len(LastData) = 0
        THEN /\ route = << >> /\ out = << >> /\ pkt = None /\ exc = "None"
             /\ Fields(Session)
                  = Fields(Replay(SubSeq(inbox, 1, Len(inbox) - 1)))
        ELSE IF LastData[1] = 4
        THEN /\ route = << "parse_eeg_packet" >>
             /\ (Len(LastData) >= 4 => pkt # None)
             /\ \A k \in 1..Len(out) : out[k][1] = "EEG"
        ELSE /\ route = << "parse_response" >>
             /\ pkt = None
             /\ (Len(LastData) >= 2 => Len(out) >= 1 /\ out[1][1] = "Response")
             /\ \A k \in 1..Len(out) : out[k][1] # "EEG"

\* C4 witness: a frame with the header of (SENSOR_STREAM, COMMAND, 1) and
\* a payload went to the EEG decoder
C4_Witness ==
    /\ Notified
    /\ LastData = << 4, 1, 90 >>
    /\ route = << "parse_eeg_packet" >>
    /\ serial_number = Some(<< 78, 67 >>)

\* the EEG decoder was given a frame of at least 4 bytes
EegLongEnough == EegDecoded /\ Len(LastData) >= 4

\* C5: for an EEG frame of length L >= 4 the decoder returns a packet
\* whose two channels both have floor((L - 4) / 8) samples; trailing bytes
\* short of a stride are dropped without error.
C5_ChannelLengths ==
    EegLongEnough =>
        /\ exc = "None"
        /\ pkt # None
        /\ Len(pkt[1].ch1) = (Len(LastData) - 4) \div 8
        /\ Len(pkt[1].ch2) = (Len(LastData) - 4) \div 8

\* C5 witness: a frame of 4 + 10 bytes gave one sample per channel
C5_Witness ==
    /\ EegLongEnough
    /\ Len(LastData) = 14
    /\ Len(pkt[1].ch1) = 1
    /\ Len(pkt[1].ch2) = 1

\* v is the signed 32-bit little-endian value of the four bytes of data
\* that follow the 0-based offset at: v is in range and its two's
\* complement bytes, least significant first, are those bytes
IsSignedLE32(v, data, at) ==
    /\ v >= -2147483647 - 1
    /\ v <= 2147483647
    /\ \A j \in 0..3 : (v \div (256 ^ j)) % 256 = data[at + j + 1]
    /\ (v < 0) = (data[at + 4] >= 128)

\* C6: for an EEG frame of at least 4 bytes, index is frame[2] + 256 *
\* frame[3], and sample k of channel 1 (channel 2) is the signed
\* little-endian 32-bit value of the first (second) four bytes of stride
\* k, in stride order.
C6_SampleValues ==
    EegLongEnough =>
        /\ pkt # None
        /\ pkt[1].index = LastData[3] + 256 * LastData[4]
        /\ pkt[1].index \in 0..65535
        /\ \A k \in 1..Len(pkt[1].ch1) :
             IsSignedLE32(pkt[1].ch1[k], LastData, 4 + 8 * (k - 1))
        /\ \A k \in 1..Len(pkt[1].ch2) :
             IsSignedLE32(pkt[1].ch2[k], LastData, 8 + 8 * (k - 1))

\* C6 witness: two strides decoded in order, with the smallest and the
\* largest 32-bit values among the samples
C6_Witness ==
    /\ EegLongEnough
    /\ pkt[1].index = 65535
    /\ pkt[1].ch1 = << -1, 2147483647 >>
    /\ pkt[1].ch2 = << -2147483647 - 1, -2 >>

\* the battery level the delivered frames call for: the first payload
\* byte of the latest battery response that has a payload, None when there
\* is none
RECURSIVE LastBattery(_)
LastBattery(frames) ==
    IF Len(frames) = 0 THEN None
    ELSE LET f == frames[Len(frames)]
         IN IF IsBatteryResponse(f) /\ Len(f) >= 3 THEN Some(f[3])
            ELSE LastBattery(SubSeq(frames, 1, Len(frames) - 1))

\* C7: after any sequence of delivered frames battery_level is the first
\* payload byte of the latest (BATTERY, RESPONSE, GET_BATTERY) frame with
\* a non-empty payload, or unset when none arrived; further payload bytes
\* and matching frames without payload change nothing; it is unset or in
\* 0..255.
C7_BatteryLastWriter ==
    /\ battery_level = LastBattery(inbox)
    /\ battery_level = None \/ battery_level[1] \in 0..255

\* C7 witness: two battery responses and one without payload arrived; the
\* second one's first byte stands
C7_Witness ==
    /\ inbox = << << 7, 0, 90 >>, << 7, 0, 17, 34 >>, << 7, 0 >> >>
    /\ battery_level = Some(17)

\* the UTF-8 bytes of a string
RECURSIVE Utf8Encode(_)
Utf8Encode(str) ==
    IF Len(str) = 0 THEN << >>
    ELSE LET c == str[1]
         IN (IF c < 128 THEN << c >>
             ELSE IF c < 2048 THEN << 192 + (c \div 64), 128 + (c % 64) >>
             ELSE IF c < 65536
             THEN << 224 + (c \div 4096), 128 + ((c \div 64) % 64),
                     128 + (c % 64) >>
             ELSE << 240 + (c \div 262144), 128 + ((c \div 4096) % 64),
                     128 + ((c \div 64) % 64), 128 + (c % 64) >>)
            \o Utf8Encode(Tail(str))

\* a Unicode scalar value
IsScalar(c) == (c >= 0 /\ c <= 55295) \/ (c >= 57344 /\ c <= 1114111)

\* str is the text that the bytes are the UTF-8 encoding of
IsTextOf(str, bytes) ==
    /\ \A k \in 1..Len(str) : IsScalar(str[k])
    /\ Utf8Encode(str) = bytes

\* the value of a lower-case hexadecimal digit, -1 for any other character
HexVal(c) ==
    IF c >= 48 /\ c <= 57 THEN c - 48
    ELSE IF c >= 97 /\ c <= 102 THEN c - 87
    ELSE -1

\* str is the hexadecimal string of the bytes
IsHexOf(str, bytes) ==
    /\ Len(str) = 2 * Len(bytes)
    /\ \A k \in 1..Len(bytes) :
         /\ HexVal(str[2 * k - 1]) >= 0
         /\ HexVal(str[2 * k]) >= 0
         /\ HexVal(str[2 * k - 1]) * 16 + HexVal(str[2 * k]) = bytes[k]

\* serial payloads with the str that the Python code leaves in
\* serial_number for each
PythonSerial ==
    { << << >>, << >> >>,
      << << 65 >>, << 65 >> >>,
      << << 90 >>, << 90 >> >>,
      << << 78, 67 >>, << 78, 67 >> >>,
      << << 0 >>, << 0 >> >>,
      << << 195, 169 >>, << 233 >> >>,
      << << 226, 130, 172 >>, << 8364 >> >>,
      << << 240, 159, 152, 128 >>, << 128512 >> >>,
      << << 195 >>, << 99, 51 >> >>,
      << << 128 >>, << 56, 48 >> >>,
      << << 255 >>, << 102, 102 >> >>,
      << << 192, 128 >>, << 99, 48, 56, 48 >> >>,
      << << 224, 128, 128 >>, << 101, 48, 56, 48, 56, 48 >> >>,
      << << 237, 160, 128 >>, << 101, 100, 97, 48, 56, 48 >> >>,
      << << 244, 144, 128, 128 >>, << 102, 52, 57, 48, 56, 48, 56, 48 >> >>,
      << << 1, 0, 255, 255, 255, 255, 0, 0, 0, 128 >>,
         << 48, 49, 48, 48, 102, 102, 102, 102, 102, 102, 102, 102, 48, 48,
            48, 48, 48, 48, 56, 48 >> >>,
      << << 65, 255 >>, << 52, 49, 102, 102 >> >> }

\* the response decoder was given a serial response
SerialProcessed == ResponseDecoded /\ IsSerialResponse(LastData)

\* C8: processing a (CORE, RESPONSE, GET_SERIAL) frame with any payload
\* raises nothing and leaves serial_number set: to the text the payload
\* encodes when it is well-formed, and to the hexadecimal string of the
\* payload otherwise.
C8_SerialNeverFails ==
    SerialProcessed =>
        LET payload == SliceFrom(LastData, 2)
        IN /\ exc = "None"
           /\ serial_number # None
           /\ \/ IsTextOf(serial_number[1], payload)
              \/ IsHexOf(serial_number[1], payload)
           /\ Utf8Valid(payload) => IsTextOf(serial_number[1], payload)
           /\ \A v \in PythonSerial :
                v[1] = payload => serial_number = Some(v[2])

\* C8 witness: a payload that is no text (a surrogate in UTF-8 form) was
\* stored as its hexadecimal string, over an earlier serial number
C8_Witness ==
    /\ SerialProcessed
    /\ LastData = << 1, 1, 237, 160, 128 >>
    /\ inbox[1] = << 1, 1, 78, 67 >>
    /\ serial_number = Some(<< 101, 100, 97, 48, 56, 48 >>)

\* the response decoder (the EEG decoder) was given a frame of fewer than
\* 2 (4) bytes
ResponseShort == ResponseDecoded /\ Len(LastData) < 2
EegShort == EegDecoded /\ Len(LastData) < 4

\* the frames delivered before the latest operation, which is the only
\* operation of a run on the connected session
Before == IF Notified THEN SubSeq(inbox, 1, Len(inbox) - 1) ELSE inbox

\* the latest operation read nothing past the frame, decoded nothing,
\* printed nothing and changed no session field
Dropped ==
    /\ exc # "IndexError"
    /\ pkt = None
    /\ out = << >>
    /\ Fields(Session) = Fields(Replay(Before))
    /\ sink = Replay(Before).sink

Fails(f) ==
    /\ Len(f) > 0
    /\ IF f[1] = 4 THEN Len(f) < 4 ELSE Len(f) < 2

\* the delivered frames without those whose decode fails
Decodable(frames) == SelectSeq(frames, LAMBDA f : ~Fails(f))

\* no callback raises, and the session fields and the printed lines are
\* those of a run in which the failing frames were never delivered
FailuresLeaveNoTrace ==
    LET without == Replay(Decodable(inbox))
    IN /\ Notified => exc = "None"
       /\ Session = Fields(without)
       /\ sink = without.sink

StreamOffFrame == << 2, 0, 0 >>
TestOffFrame == << 2, 1, 0 >>
TestOnFrame == << 2, 1, 1 >>
StreamOnFrame == << 2, 0, 1 >>

\* the frames of `w` from position n + 1 on
WrittenAfter(w, n) == SubSeq(w, n + 1, Len(w))

\* C11: a stop_streaming that returns has written exactly two frames,
\* 02 00 00 (stream-disable) and then 02 01 00 (test-signal-disable); one
\* that a failed write leaves has written nothing or 02 00 00 alone, so
\* 02 01 00 is never written before 02 00 00; this is so whether or not the
\* preceding start_streaming enabled the test signal.
C11_StopOrder ==
    [][ call'.op = "stop_streaming" =>
          /\ Len(wire') >= Len(wire)
          /\ SubSeq(wire', 1, Len(wire)) = wire
          /\ LET w == WrittenAfter(wire', Len(wire))
             IN IF exc' = "None"
                THEN w = << StreamOffFrame, TestOffFrame >>
                ELSE w \in { << >>, << StreamOffFrame >> }
      ]_vars

\* C11 witness: stop_streaming returned after a start_streaming that had
\* not enabled the test signal, its two frames being the last written
C11_Witness ==
    /\ LastOp = "stop_streaming"
    /\ exc = "None"
    /\ wire = << << 0, 1 >>, << 6, 0 >>, StreamOnFrame,
                 StreamOffFrame, TestOffFrame >>

\* C12: start_streaming(True) writes 02 01 01 (test-signal-enable) and then
\* 02 00 01 (stream-enable), never the second before the first;
\* start_streaming(False) writes 02 00 01 alone and no test-signal command.
C12_StartOrder ==
    [][ call'.op = "start_streaming" =>
          /\ Len(wire') >= Len(wire)
          /\ SubSeq(wire', 1, Len(wire)) = wire
          /\ LET w == WrittenAfter(wire', Len(wire))
                 use_test_signal == call'.args[1]
             IN IF exc' # "None"
                THEN w \in { << >> } \cup
                           (IF use_test_signal THEN { << TestOnFrame >> }
                                               ELSE { })
                ELSE IF use_test_signal
                THEN w = << TestOnFrame, StreamOnFrame >>
                ELSE w = << StreamOnFrame >>
      ]_vars

\* C12 witness: start_streaming(False) returned having written the
\* stream-enable frame alone
C12_Witness ==
    /\ LastOp = "start_streaming"
    /\ call.args = << FALSE >>
    /\ exc = "None"
    /\ wire = << << 0, 1 >>, << 6, 0 >>, StreamOnFrame >>

\* the frames of the identification commands
GetSerialFrame == << 0, 1 >>
GetBatteryFrame == << 6, 0 >>

\* C13: in a run of scan_and_connect that finds a device, 00 01
\* (GET_SERIAL) is written before 06 00 (GET_BATTERY), each once and only
\* with the link connected and the notification callback registered, and
\* scan_and_connect returns with exactly these two frames written; when no
\* device is found nothing is written and the session stays disconnected.
C13_IdentificationOrder ==
    [][ /\ wire' # wire =>
             /\ wire' = Append(wire, wire'[Len(wire')])
             /\ is_connected /\ notifying
        /\ (wire' # wire /\ wire'[Len(wire')] = GetSerialFrame) =>
             wire = << >>
        /\ (wire' # wire /\ wire'[Len(wire')] = GetBatteryFrame) =>
             wire = << GetSerialFrame >>
        /\ (pc = "get_battery" /\ pc' = "start_streaming") =>
             wire' = << GetSerialFrame, GetBatteryFrame >>
        /\ (pc = "scan" /\ pc' = "done") =>
             /\ exc' = "RuntimeError"
             /\ wire' = << >>
             /\ client' = "None" /\ ~is_connected' /\ ~notifying'
      ]_vars

\* C13 witness: scan_and_connect has returned on a connected, subscribed
\* link with the two identification commands written in order
C13_Witness ==
    /\ pc = "start_streaming"
    /\ is_connected /\ notifying
    /\ wire = << GetSerialFrame, GetBatteryFrame >>

\* both identification responses are among the frames
Identified(frames) ==
    /\ \E k \in 1..Len(frames) : IsSerialResponse(frames[k])
    /\ \E k \in 1..Len(frames) : IsBatteryResponse(frames[k])

\* C14: no stream-enable or test-signal-enable command is written while an
\* identification response is outstanding.  main() keeps no timer between
\* the GET_BATTERY write (line 67) and start_streaming (line 142), so no
\* step stands for a timeout that has elapsed.
C14_IdleAwaitsIdentification ==
    [][ (/\ wire' # wire
         /\ wire'[Len(wire')] \in { TestOnFrame, StreamOnFrame })
          => Identified(inbox)
      ]_vars

\* C14 witness: the test signal was enabled with no frame received and
\* both fields unset
C14_Witness ==
    /\ pc = "stream_on"
    /\ inbox = << >>
    /\ serial_number = None
    /\ battery_level = None
    /\ wire = << GetSerialFrame, GetBatteryFrame, TestOnFrame >>

\* a printed line is the line of an EEG packet
IsEegLine(l) == l[1] = "EEG"

\* a frame the EEG decoder turns into a packet
IsLongEeg(f) == Len(f) >= 4 /\ f[1] = 4

\* the line of the packet of a frame, read off the frame's bytes
LineOfFrame(f) ==
    << "EEG", f[3] + 256 * f[4], (Len(f) - 4) \div 8, (Len(f) - 4) \div 8 >>

\* the lines of the packets of the EEG frames among `frames`, in order
RECURSIVE Forwarded(_)
Forwarded(frames) ==
    IF Len(frames) = 0 THEN << >>
    ELSE (IF IsLongEeg(Head(frames)) THEN << LineOfFrame(Head(frames)) >>
                                     ELSE << >>)
         \o Forwarded(Tail(frames))

\* C15: the packets handed on are exactly those of the EEG frames of 4
\* bytes or more in the order of arrival, one per frame, each emitted in
\* the step that processes its frame and decoded from that frame alone,
\* whatever the index values (repeated, decreasing or skipped).
C15_ForwardedInOrder ==
    [][ call'.op = "handle_notification" =>
          LET data == call'.args[1]
          IN /\ inbox' = Append(inbox, data)
             /\ SelectSeq(sink', IsEegLine)
                  = SelectSeq(sink, IsEegLine) \o Forwarded(<< data >>)
             /\ SelectSeq(sink', IsEegLine) = Forwarded(inbox')
             /\ IF IsLongEeg(data)
                THEN /\ pkt' = parse_eeg_packet(data).pkt
                     /\ pkt' # None
                     /\ EEGLine(pkt'[1]) = LineOfFrame(data)
                ELSE pkt' = None
      ]_vars

\* C15 witness: index 3, then index 1, then index 1 again, each forwarded
C15_Witness ==
    /\ inbox = << << 4, 8, 3, 0, 255, 255, 255, 255, 0, 0, 0, 128 >>,
                  << 4, 8, 1, 0, 1, 0, 0, 0, 2, 0, 0, 0 >>,
                  << 4, 8, 1, 0, 1, 0, 0, 0, 2, 0, 0, 0 >> >>
    /\ sink = << << "EEG", 3, 1, 1 >>, << "EEG", 1, 1, 1 >>,
                 << "EEG", 1, 1, 1 >> >>
    /\ pkt = Some([index |-> 1, ch1 |-> << 1 >>, ch2 |-> << 2 >>])

\* the frame with its length byte (frame[1], the second byte) set to b
WithLengthByte(data, b) == [data EXCEPT ![2] = b]

\* C16: the length byte of an EEG frame is ignored.  An EEG frame of 4
\* bytes or more decodes to the same packet (index, channel 1, channel 2)
\* whatever value 0..255 its second byte holds, without error, and the
\* number of samples is that of the complete strides actually present,
\* also when the byte disagrees with len(frame) - 4.
C16_LengthByteIgnored ==
    EegLongEnough =>
        /\ exc = "None"
        /\ pkt # None
        /\ Len(pkt[1].ch1) = (Len(LastData) - 4) \div 8
        /\ Len(pkt[1].ch2) = (Len(LastData) - 4) \div 8
        /\ \A b \in 0..255 :
             parse_eeg_packet(WithLengthByte(LastData, b))
               = [pkt |-> pkt, exc |-> "None"]

\* C16 witness: a frame of two strides whose length byte says 8 gave two
\* samples per channel
C16_Witness ==
    /\ EegLongEnough
    /\ LastData[2] = 8
    /\ Len(LastData) = 20
    /\ pkt # None
    /\ Len(pkt[1].ch1) = 2

\* C17: a frame whose header is packed from feature_id in 0..127, pdu_type
\* in 0..3 and pdu_id in 0..127 has an odd first byte when pdu_type is
\* RESPONSE or ERROR and goes to the response decoder; it goes to the EEG
\* decoder exactly when feature_id is SENSOR_STREAM and pdu_type is COMMAND
\* or NOTIFICATION.  A serial response sets serial_number and a battery
\* response with a payload sets battery_level.
C17_RepliesNotHidden ==
    (pc = "api_done" /\ Notified /\ SentInRange) =>
        /\ LastData[1] = SentFeature * 2 + SentType \div 2
        /\ SentType \in { PDU_RESPONSE, PDU_ERROR } =>
             /\ LastData[1] % 2 = 1
             /\ route = << "parse_response" >>
        /\ route = << "parse_eeg_packet" >> <=>
             /\ SentFeature = SENSOR_STREAM_FEATURE
             /\ SentType \in { PDU_COMMAND, PDU_NOTIFICATION }
        /\ route \in { << "parse_eeg_packet" >>, << "parse_response" >> }
        /\ (/\ SentFeature = CORE_FEATURE
            /\ SentType = PDU_RESPONSE
            /\ SentId = CMD_GET_SERIAL) => serial_number # None
        /\ (/\ SentFeature = BATTERY_FEATURE
            /\ SentType = PDU_RESPONSE
            /\ SentId = CMD_GET_BATTERY
            /\ Len(SentData) > 0) => battery_level = Some(SentData[1])

\* C17 witness: the response header of the SENSOR_STREAM feature, first
\* byte 0x05, went to the response decoder
C17_Witness ==
    /\ pc = "api_done"
    /\ Notified
    /\ cmd = Some(<< SENSOR_STREAM_FEATURE, PDU_RESPONSE, 0, << 0, 255 >> >>)
    /\ LastData = << 5, 0, 0, 255 >>
    /\ route = << "parse_response" >>

\* the coroutines that send commands on an existing session
SendingCalls == { "send_command", "start_streaming", "stop_streaming" }

\* C18: send_command, start_streaming and stop_streaming called without a
\* live connection, before scan_and_connect has connected or after
\* disconnect has completed, fail with RuntimeError("Not connected")
\* before any call of write_gatt_char, and write nothing.
C18_NotConnectedRejected ==
    [][ (call'.op \in SendingCalls /\ ~is_connected) =>
          /\ exc' = "RuntimeError"
          /\ wire' = wire
      ]_vars

\* C18 witness: after scan_and_connect and disconnect, send_command passed
\* its guard and was refused by write_gatt_char
C18_Witness ==
    /\ pc = "call"
    /\ LastOp = "send_command"
    /\ client = "BleakClient"
    /\ ~is_connected
    /\ ~notifying
    /\ wire = << GetSerialFrame, GetBatteryFrame >>
    /\ exc = "BleakError"

\* C19: a run of main() that has ended has performed disconnect: the
\* callback is unregistered and the link closed, also when a write failed
\* inside start_streaming or stop_streaming.
C19_TeardownAlways ==
    pc = "done" => (~is_connected /\ ~notifying)

\* C19 witness: the second write of stop_streaming failed inside the
\* finally block and main() ended with the link up and the callback
\* registered
C19_Witness ==
    /\ pc = "done"
    /\ exc = "BleakError"
    /\ is_connected
    /\ notifying
    /\ cmd = Some(TestOffArgs)
    /\ wire = << GetSerialFrame, GetBatteryFrame, TestOnFrame, StreamOnFrame,
                 StreamOffFrame >>

\* C20: wherever the callback runs between the sends of scan_and_connect,
\* start_streaming and stop_streaming, serial_number and battery_level are
\* those obtained by processing the delivered frames in their order of
\* arrival on a new client: they do not depend on the commands written or
\* on where main() is, and a matching response is applied before its
\* command was sent and while streaming.
C20_SessionFollowsFrames ==
    /\ Session = Fields(Replay(inbox))
    /\ sink = Replay(inbox).sink

\* C20 witness: a serial and a battery response arrived before any command
\* was written, and both were applied
C20_Witness ==
    /\ pc = "get_serial"
    /\ Notified
    /\ wire = << >>
    /\ inbox = << << 1, 1, 78, 67 >>, << 7, 0, 90 >> >>
    /\ serial_number = Some(<< 78, 67 >>)
    /\ battery_level = Some(90)

=============================================================================
